---- MODULE Spec2Model ----
(***************************************************************************)
(* Model of the JSON mutation engine of caddy-json-parse (mutations.go).   *)
(*                                                                         *)
(* Go strings are sequences of one-character strings.  Go interface{}      *)
(* values are tagged records; maps and slices are references into a heap   *)
(* `h` (a sequence of cells), so that the closures built by walkTargets    *)
(* act on shared storage exactly as in the source.                         *)
(***************************************************************************)
EXTENDS Integers, Sequences, FiniteSets, TLC

\* ------------------------------------------------------------------------
\* Strings
\* ------------------------------------------------------------------------

DigitChars == {"0", "1", "2", "3", "4", "5", "6", "7", "8", "9"}

DigitVal(c) ==
  CASE c = "0" -> 0 [] c = "1" -> 1 [] c = "2" -> 2 [] c = "3" -> 3
    [] c = "4" -> 4 [] c = "5" -> 5 [] c = "6" -> 6 [] c = "7" -> 7
    [] c = "8" -> 8 [] c = "9" -> 9

RECURSIVE DigitsVal(_, _, _)
DigitsVal(s, i, acc) ==
  IF i > Len(s) THEN acc ELSE DigitsVal(s, i + 1, acc * 10 + DigitVal(s[i]))

\* strconv.Atoi(seg): optional sign, then one or more decimal digits.
Atoi(seg) ==
  LET signed == Len(seg) > 0 /\ seg[1] \in {"+", "-"}
      digits == IF signed THEN Tail(seg) ELSE seg
      ok     == Len(digits) > 0 /\ \A k \in 1..Len(digits) : digits[k] \in DigitChars
      mag    == IF ok THEN DigitsVal(digits, 1, 0) ELSE 0
  IN  [ok |-> ok, n |-> IF signed /\ seg[1] = "-" THEN 0 - mag ELSE mag]

RECURSIVE SplitAcc(_, _, _, _)
SplitAcc(s, i, cur, acc) ==
  IF i > Len(s) THEN Append(acc, cur)
  ELSE IF s[i] = "." THEN SplitAcc(s, i + 1, <<>>, Append(acc, cur))
  ELSE SplitAcc(s, i + 1, Append(cur, s[i]), acc)

\* strings.Split(path, ".")
Split(path) == SplitAcc(path, 1, <<>>, <<>>)

\* ------------------------------------------------------------------------
\* Values
\* ------------------------------------------------------------------------

\* Go interface{} values held by the program
Nil          == [t |-> "null"]
Bool(b)      == [t |-> "bool", b |-> b]
Num(n)       == [t |-> "num", n |-> n]
Str(s)       == [t |-> "str", s |-> s]
MapRef(p)    == [t |-> "map", p |-> p]
Slice(a, n)  == [t |-> "slice", a |-> a, len |-> n]

\* JSON documents (structure only): scalars as above, plus
JArr(es)     == [t |-> "arr", e |-> es]
JObj(m)      == [t |-> "obj", m |-> m]
NoKeys       == [k \in {} |-> Nil]

\* heap cells
MapCell(m)   == [k |-> "map", m |-> m]
ArrCell(es)  == [k |-> "arr", e |-> es]

RECURSIVE Alloc(_, _), AllocSeq(_, _, _, _), AllocMap(_, _, _, _)
\* json.Unmarshal into interface{}: builds the Go value of document j
Alloc(h, j) ==
  CASE j.t = "arr" ->
         LET r == AllocSeq(h, j.e, 1, <<>>)
         IN  [h |-> Append(r.h, ArrCell(r.vs)), v |-> Slice(Len(r.h) + 1, Len(j.e))]
    [] j.t = "obj" ->
         LET r == AllocMap(h, j.m, DOMAIN j.m, NoKeys)
         IN  [h |-> Append(r.h, MapCell(r.m)), v |-> MapRef(Len(r.h) + 1)]
    [] OTHER -> [h |-> h, v |-> j]
AllocSeq(h, es, i, vs) ==
  IF i > Len(es) THEN [h |-> h, vs |-> vs]
  ELSE LET r == Alloc(h, es[i]) IN AllocSeq(r.h, es, i + 1, Append(vs, r.v))
AllocMap(h, m, ks, acc) ==
  IF ks = {} THEN [h |-> h, m |-> acc]
  ELSE LET k == CHOOSE x \in ks : TRUE
           r == Alloc(h, m[k])
       IN  AllocMap(r.h, m, ks \ {k}, (k :> r.v) @@ acc)

RECURSIVE Deref(_, _)
\* the JSON document a Go value denotes (what json.Marshal would encode)
Deref(h, v) ==
  CASE v.t = "slice" -> JArr([i \in 1..v.len |-> Deref(h, h[v.a].e[i])])
    [] v.t = "map"   -> JObj([k \in DOMAIN h[v.p].m |-> Deref(h, h[v.p].m[k])])
    [] OTHER         -> v

\* ------------------------------------------------------------------------
\* Locations in a document: a location is the sequence of steps from the
\* root, a step being an object key or an array index (counted from 0).
\* ------------------------------------------------------------------------

KeyStep(key) == [key |-> key, idx |-> 0 - 1]
IdxStep(n)   == [key |-> <<>>, idx |-> n]
IsKeyStep(st) == st.idx < 0

Absent == [ok |-> FALSE, val |-> Nil]

RECURSIVE At(_, _)
\* the value a location holds in a document, if it holds one
At(doc, loc) ==
  IF Len(loc) = 0 THEN [ok |-> TRUE, val |-> doc]
  ELSE LET st == Head(loc)
       IN  IF IsKeyStep(st)
             THEN IF doc.t = "obj" /\ st.key \in DOMAIN doc.m
                    THEN At(doc.m[st.key], Tail(loc)) ELSE Absent
             ELSE IF doc.t = "arr" /\ st.idx < Len(doc.e)
                    THEN At(doc.e[st.idx + 1], Tail(loc)) ELSE Absent

Under(st, locs) == {<<st>> \o l : l \in locs}

RECURSIVE LocsBy(_, _, _)
\* the locations the segments address in a document: what walkTargets
\* resolves when numAsKey is FALSE; with numAsKey, a numeric token met at an
\* Object is taken as a key
LocsBy(doc, segments, numAsKey) ==
  IF Len(segments) = 0 THEN {}
  ELSE
    LET seg  == Head(segments)
        last == Len(segments) = 1
        rest == Tail(segments)
        a    == Atoi(seg)
        key  == IF doc.t # "obj" THEN {}
                ELSE IF last THEN {<<KeyStep(seg)>>}
                ELSE IF seg \in DOMAIN doc.m
                  THEN Under(KeyStep(seg), LocsBy(doc.m[seg], rest, numAsKey))
                  ELSE {}
    IN
    IF seg = <<"*">> THEN
      CASE doc.t = "arr" ->
             UNION { IF last THEN {<<IdxStep(n)>>}
                     ELSE Under(IdxStep(n), LocsBy(doc.e[n + 1], rest, numAsKey))
                     : n \in 0..(Len(doc.e) - 1) }
        [] doc.t = "obj" ->
             UNION { IF last THEN {<<KeyStep(k)>>}
                     ELSE Under(KeyStep(k), LocsBy(doc.m[k], rest, numAsKey))
                     : k \in DOMAIN doc.m }
        [] OTHER -> {}
    ELSE IF a.ok THEN
      IF doc.t = "arr" /\ a.n >= 0 THEN
        IF last THEN {<<IdxStep(a.n)>>}
        ELSE IF a.n < Len(doc.e)
          THEN Under(IdxStep(a.n), LocsBy(doc.e[a.n + 1], rest, numAsKey))
          ELSE {}
      ELSE IF numAsKey THEN key ELSE {}
    ELSE key

Locs(doc, path) == LocsBy(doc, Split(path), FALSE)

\* ------------------------------------------------------------------------
\* Machine state of one applyActions call: the heap `h`, the variables
\* captured by the closures of the current findTargets call (`cv`: the
\* slice variables `v` of line 307 and `arr` of line 376, which the
\* closures reassign), the caller's `*root`, and whether Go panicked.
\* ------------------------------------------------------------------------

Machine(hp, rt) == [h |-> hp, cv |-> <<>>, root |-> rt, panic |-> FALSE]

\* the setter closures, from the innermost frame up to `*root = v`
RootSetter            == [k |-> "root"]
StarArrFrame(v, i, up) == [k |-> "starArr", v |-> v, idx |-> i, up |-> up]
MapFrame(p, key, up)   == [k |-> "key", p |-> p, key |-> key, up |-> up]
IdxFrame(v, i, up)     == [k |-> "idxArr", v |-> v, idx |-> i, up |-> up]

\* v[idx] = newVal on a slice (idx counted from 0); out of range panics
SliceStore(m, sl, idx, newVal) ==
  IF idx < 0 \/ idx >= sl.len
    THEN [m EXCEPT !.panic = TRUE]
    ELSE [m EXCEPT !.h[sl.a].e[idx + 1] = newVal]

\* v[key] = newVal on a map
MapStore(m, p, key, newVal) ==
  [m EXCEPT !.h[p].m = (key :> newVal) @@ @]

\* delete(v, key)
MapDelete(m, p, key) ==
  [m EXCEPT !.h[p].m = [x \in (DOMAIN @) \ {key} |-> @[x]]]

RECURSIVE CallSetter(_, _, _)
\* setter(newVal): lines 292, 310-313, 344-347, 378-380, 415-418, 425-428
CallSetter(m, f, newVal) ==
  CASE f.k = "root"    -> [m EXCEPT !.root = newVal]
    [] f.k = "starArr" -> LET m1 == SliceStore(m, m.cv[f.v], f.idx, newVal)
                          IN  CallSetter(m1, f.up, m.cv[f.v])
    [] f.k = "key"     -> CallSetter(MapStore(m, f.p, f.key, newVal), f.up, MapRef(f.p))
    [] f.k = "idxArr"  -> LET m1 == SliceStore(m, m.cv[f.v], f.idx, newVal)
                          IN  CallSetter(m1, f.up, m.cv[f.v])

\* keys of map cell p in the order `ord` (Go's range order over a map is
\* unspecified: `ord` is chosen nondeterministically by the caller)
KeysInOrder(hp, p, ord) ==
  SelectSeq(ord, LAMBDA k : k \in DOMAIN hp[p].m)

Star == <<"*">>

RECURSIVE walkTargets(_, _, _, _, _, _)
RECURSIVE walkStarArr(_, _, _, _, _, _, _, _)
RECURSIVE walkStarMap(_, _, _, _, _, _, _, _, _)

\* walkTargets(current, setter, segments): the targets, in order, together
\* with the closure variables allocated so far.  A target is the frame of
\* its own set closure; get and del read the same frame.
walkTargets(hp, ord, cvs, current, setter, segments) ==
  IF Len(segments) = 0 THEN [out |-> <<>>, cv |-> cvs]
  ELSE
    LET seg  == Head(segments)
        last == Len(segments) = 1
        rest == Tail(segments)
        none == [out |-> <<>>, cv |-> cvs]
        a    == Atoi(seg)
    IN
    IF seg = Star THEN
      CASE current.t = "slice" ->
             walkStarArr(hp, ord, Append(cvs, current), Len(cvs) + 1, 0,
                         setter, segments, <<>>)
        [] current.t = "map" ->
             walkStarMap(hp, ord, cvs, current.p, KeysInOrder(hp, current.p, ord), 1,
                         setter, segments, <<>>)
        [] OTHER -> none
    ELSE IF a.ok THEN
      IF current.t = "slice" /\ a.n >= 0 THEN
        LET vid == Len(cvs) + 1
            cv1 == Append(cvs, current)
        IN  IF last THEN [out |-> <<IdxFrame(vid, a.n, setter)>>, cv |-> cv1]
            ELSE IF a.n < current.len
              THEN walkTargets(hp, ord, cv1, hp[current.a].e[a.n + 1],
                               IdxFrame(vid, a.n, setter), rest)
              ELSE [out |-> <<>>, cv |-> cv1]
      ELSE none
    ELSE
      IF current.t = "map" THEN
        IF last THEN [out |-> <<MapFrame(current.p, seg, setter)>>, cv |-> cvs]
        ELSE IF seg \in DOMAIN hp[current.p].m
          THEN walkTargets(hp, ord, cvs, hp[current.p].m[seg],
                           MapFrame(current.p, seg, setter), rest)
          ELSE none
      ELSE none

\* lines 307-340: for i := range v
walkStarArr(hp, ord, cvs, vid, i, setter, segments, out) ==
  IF i >= cvs[vid].len THEN [out |-> out, cv |-> cvs]
  ELSE IF Len(segments) = 1
    THEN walkStarArr(hp, ord, cvs, vid, i + 1, setter, segments,
                     Append(out, StarArrFrame(vid, i, setter)))
    ELSE LET r == walkTargets(hp, ord, cvs, hp[cvs[vid].a].e[i + 1],
                              StarArrFrame(vid, i, setter), Tail(segments))
         IN  walkStarArr(hp, ord, r.cv, vid, i + 1, setter, segments, out \o r.out)

\* lines 341-372: for k, val := range v
walkStarMap(hp, ord, cvs, p, ks, i, setter, segments, out) ==
  IF i > Len(ks) THEN [out |-> out, cv |-> cvs]
  ELSE IF Len(segments) = 1
    THEN walkStarMap(hp, ord, cvs, p, ks, i + 1, setter, segments,
                     Append(out, MapFrame(p, ks[i], setter)))
    ELSE LET r == walkTargets(hp, ord, cvs, hp[p].m[ks[i]],
                              MapFrame(p, ks[i], setter), Tail(segments))
         IN  walkStarMap(hp, ord, r.cv, p, ks, i + 1, setter, segments, out \o r.out)

\* findTargets(root, path): the machine with the closures' variables, and
\* the targets
findTargets(m, ord, path) ==
  LET r == walkTargets(m.h, ord, <<>>, m.root, RootSetter, Split(path))
  IN  [m |-> [m EXCEPT !.cv = r.cv], out |-> r.out]

\* t.get(): lines 317-324, 351-355, 394-399, 431-434
TargetGet(m, t) ==
  CASE t.k = "key" ->
         IF t.key \in DOMAIN m.h[t.p].m
           THEN [val |-> m.h[t.p].m[t.key], ok |-> TRUE]
           ELSE [val |-> Nil, ok |-> FALSE]
    [] OTHER ->
         LET sl == m.cv[t.v]
         IN  IF t.idx < 0 \/ t.idx >= sl.len
               THEN [val |-> Nil, ok |-> FALSE]
               ELSE [val |-> m.h[sl.a].e[t.idx + 1], ok |-> TRUE]

\* IdxSet whose ensureIndex grows a private copy and never hands it to the
\* setter of the enclosing container
IdxSet_GrowsPrivately(m, t, newVal) ==
  LET arr == m.cv[t.v]
  IN  IF t.idx < arr.len
        THEN CallSetter(SliceStore(m, arr, t.idx, newVal), t.up, arr)
        ELSE LET old   == m.h[arr.a].e
                 cells == SubSeq(old, 1, arr.len) \o [i \in 1..(t.idx + 1 - arr.len) |-> Nil]
                 grown == Slice(Len(m.h) + 1, t.idx + 1)
                 m1    == [m EXCEPT !.h = Append(@, ArrCell(cells))]
                 m3    == [m1 EXCEPT !.cv[t.v] = grown]
             IN  SliceStore(m3, grown, t.idx, newVal)

\* ensureIndex(), lines 381-390, followed by the store of lines 401-403
IdxSet(m, t, newVal) ==
  LET arr == m.cv[t.v]
  IN  IF t.idx < arr.len
        THEN CallSetter(SliceStore(m, arr, t.idx, newVal), t.up, arr)
        ELSE LET old   == m.h[arr.a].e
                 cells == SubSeq(old, 1, arr.len) \o [i \in 1..(t.idx + 1 - arr.len) |-> Nil]
                 grown == Slice(Len(m.h) + 1, t.idx + 1)
                 m1    == [m EXCEPT !.h = Append(@, ArrCell(cells))]
                 m2    == CallSetter(m1, t.up, grown)
                 m3    == [m2 EXCEPT !.cv[t.v] = grown]
             IN  CallSetter(SliceStore(m3, grown, t.idx, newVal), t.up, grown)

\* t.set(newVal): the childSetter of the frame, or lines 400-404
TargetSet(m, t, newVal) ==
  IF t.k = "idxArr" THEN IdxSet(m, t, newVal) ELSE CallSetter(m, t, newVal)

\* v = append(v[:idx], v[idx+1:]...): the elements after idx move down one
\* place in the same backing array, and the slice is one shorter
RemoveAt(m, vid, idx) ==
  LET sl  == m.cv[vid]
      old == m.h[sl.a].e
      new == SubSeq(old, 1, idx) \o SubSeq(old, idx + 2, sl.len)
             \o SubSeq(old, sl.len, Len(old))
  IN  [m EXCEPT !.h[sl.a].e = new, !.cv[vid] = Slice(sl.a, sl.len - 1)]

\* t.del(): lines 326-335, 358-367, 405-412, 436-443
TargetDel(m, t) ==
  CASE t.k = "key" ->
         IF t.key \in DOMAIN m.h[t.p].m
           THEN [m |-> CallSetter(MapDelete(m, t.p, t.key), t.up, MapRef(t.p)), ok |-> TRUE]
           ELSE [m |-> m, ok |-> FALSE]
    [] OTHER ->
         IF t.idx < 0 \/ t.idx >= m.cv[t.v].len
           THEN [m |-> m, ok |-> FALSE]
           ELSE LET m1 == RemoveAt(m, t.v, t.idx)
                IN  [m |-> CallSetter(m1, t.up, m1.cv[t.v]), ok |-> TRUE]

\* ------------------------------------------------------------------------
\* Regular expressions (package regexp), for the patterns  ^? lit (.*)?  :
\* an optional anchor, a literal, and an optional capture of the rest.
\* ------------------------------------------------------------------------

Regex(anch, lit, rest) == [anch |-> anch, lit |-> lit, rest |-> rest]

\* the literal occurs in str at offset p (counted from 0)
LitAt(re, str, p) ==
  /\ p + Len(re.lit) <= Len(str)
  /\ SubSeq(str, p + 1, p + Len(re.lit)) = re.lit

\* re.FindStringSubmatchIndex(str): the leftmost match, as the offsets of
\* the whole match followed by those of the capture group, or no match
FindStringSubmatchIndex(re, str) ==
  LET starts == {p \in 0..Len(str) : LitAt(re, str, p) /\ (re.anch => p = 0)}
  IN  IF starts = {} THEN [ok |-> FALSE, idx |-> <<>>]
      ELSE LET p  == CHOOSE x \in starts : \A y \in starts : x <= y
               e1 == p + Len(re.lit)
           IN  [ok  |-> TRUE,
                idx |-> IF re.rest THEN <<p, Len(str), e1, Len(str)>>
                                   ELSE <<p, e1>>]

\* re.MatchString(str)
MatchString(re, str) == FindStringSubmatchIndex(re, str).ok

Letters == {"a", "b", "c", "d", "e", "f", "g", "h", "i", "j", "k", "l", "m",
            "n", "o", "p", "q", "r", "s", "t", "u", "v", "w", "x", "y", "z"}

IsNameChar(c) == c \in Letters \cup DigitChars \cup {"_"}

RECURSIVE NameEnd(_, _)
\* the end of the run of name characters that starts at position i
NameEnd(tmpl, i) ==
  IF i <= Len(tmpl) /\ IsNameChar(tmpl[i]) THEN NameEnd(tmpl, i + 1) ELSE i

\* the group number a name denotes, or -1 (regexp's extract)
GroupNum(name) ==
  IF /\ \A k \in 1..Len(name) : name[k] \in DigitChars
     /\ ~(name[1] = "0" /\ Len(name) > 1)
    THEN DigitsVal(name, 1, 0) ELSE 0 - 1

RECURSIVE ExpandFrom(_, _, _, _, _)
ExpandFrom(tmpl, i, src, match, dst) ==
  IF i > Len(tmpl) THEN dst
  ELSE IF tmpl[i] # "$" THEN ExpandFrom(tmpl, i + 1, src, match, Append(dst, tmpl[i]))
  ELSE IF i < Len(tmpl) /\ tmpl[i + 1] = "$"
    THEN ExpandFrom(tmpl, i + 2, src, match, Append(dst, "$"))
  ELSE LET e == NameEnd(tmpl, i + 1)
       IN  IF e = i + 1 THEN ExpandFrom(tmpl, i + 1, src, match, Append(dst, "$"))
           ELSE LET num == GroupNum(SubSeq(tmpl, i + 1, e - 1))
                    sub == IF num >= 0 /\ 2 * num + 1 < Len(match)
                             THEN SubSeq(src, match[2 * num + 1] + 1, match[2 * num + 2])
                             ELSE <<>>
                IN  ExpandFrom(tmpl, e, src, match, dst \o sub)

\* re.ExpandString(nil, tmpl, str, indices) for templates without braces
ExpandString(tmpl, str, indices) == ExpandFrom(tmpl, 1, str, indices, <<>>)

\* ------------------------------------------------------------------------
\* clone, deepEqual
\* ------------------------------------------------------------------------

\* clone that hands back the value itself, sharing its maps and slices
clone_Shares(hp, v) == [h |-> hp, v |-> v]

RECURSIVE clone(_, _), cloneSeq(_, _, _, _), cloneMap(_, _, _, _)
\* clone(v): a fresh copy of maps and slices; the heap after it and the copy
clone(hp, v) ==
  CASE v.t = "map" ->
         LET r == cloneMap(hp, hp[v.p].m, DOMAIN hp[v.p].m, NoKeys)
         IN  [h |-> Append(r.h, MapCell(r.m)), v |-> MapRef(Len(r.h) + 1)]
    [] v.t = "slice" ->
         LET r == cloneSeq(hp, SubSeq(hp[v.a].e, 1, v.len), 1, <<>>)
         IN  [h |-> Append(r.h, ArrCell(r.vs)), v |-> Slice(Len(r.h) + 1, v.len)]
    [] OTHER -> [h |-> hp, v |-> v]
cloneSeq(hp, es, i, vs) ==
  IF i > Len(es) THEN [h |-> hp, vs |-> vs]
  ELSE LET r == clone(hp, es[i]) IN cloneSeq(r.h, es, i + 1, Append(vs, r.v))
cloneMap(hp, mp, ks, acc) ==
  IF ks = {} THEN [h |-> hp, m |-> acc]
  ELSE LET k == CHOOSE x \in ks : TRUE
           r == clone(hp, mp[k])
       IN  cloneMap(r.h, mp, ks \ {k}, (k :> r.v) @@ acc)

\* bv[k] of a Go map: the zero value nil when the key is missing
MapIndex(mp, k) == IF k \in DOMAIN mp THEN mp[k] ELSE Nil

RECURSIVE deepEqual(_, _, _)
deepEqual(hp, a, b) ==
  CASE a.t = "map" ->
         /\ b.t = "map"
         /\ Cardinality(DOMAIN hp[a.p].m) = Cardinality(DOMAIN hp[b.p].m)
         /\ \A k \in DOMAIN hp[a.p].m :
              deepEqual(hp, hp[a.p].m[k], MapIndex(hp[b.p].m, k))
    [] a.t = "slice" ->
         /\ b.t = "slice"
         /\ a.len = b.len
         /\ \A i \in 1..a.len : deepEqual(hp, hp[a.a].e[i], hp[b.a].e[i])
    [] OTHER -> a = b

\* ------------------------------------------------------------------------
\* The five mutations.  Each yields the machine after it, its changed flag
\* and its error ("nil" when there is none).
\* ------------------------------------------------------------------------

Outcome(m, changed, err) == [m |-> m, changed |-> changed, err |-> err]

RECURSIVE setEach(_, _, _, _)
\* lines 140-142
setEach(m, targets, i, value) ==
  IF i > Len(targets) THEN m
  ELSE LET c == clone(m.h, value)
       IN  setEach(TargetSet([m EXCEPT !.h = c.h], targets[i], c.v), targets, i + 1, value)

applySet(m, ord, path, value) ==
  LET ft == findTargets(m, ord, path)
  IN  IF Len(ft.out) = 0 THEN Outcome(m, FALSE, "nil")
      ELSE Outcome(setEach(ft.m, ft.out, 1, value), TRUE, "nil")

RECURSIVE mergeKeys(_, _, _, _, _, _)
\* lines 170-176: for k, v := range src
mergeKeys(m, dst, src, ks, i, changed) ==
  IF i > Len(ks) THEN [m |-> m, changed |-> changed]
  ELSE LET k      == ks[i]
           v      == m.h[src].m[k]
           exists == k \in DOMAIN m.h[dst].m
       IN  IF ~exists \/ ~deepEqual(m.h, m.h[dst].m[k], v)
             THEN LET c == clone(m.h, v)
                  IN  mergeKeys(MapStore([m EXCEPT !.h = c.h], dst, k, c.v),
                                dst, src, ks, i + 1, TRUE)
             ELSE mergeKeys(m, dst, src, ks, i + 1, changed)

\* mergeTarget that replaces every destination that is not a map
mergeTarget_ReplaceNonMaps(m, t, src, ord, changed) ==
  LET g      == TargetGet(m, t)
      fresh  == ~g.ok \/ g.val.t # "map"
      m0     == [m EXCEPT !.h = Append(@, MapCell(NoKeys))]
      m1     == IF fresh THEN TargetSet(m0, t, MapRef(Len(m0.h))) ELSE m
      dstVal == IF fresh THEN MapRef(Len(m0.h)) ELSE g.val
  IN  mergeKeys(m1, dstVal.p, src, KeysInOrder(m1.h, src, ord), 1, changed)

\* lines 160-176: one iteration of the loop over the targets
mergeTarget(m, t, src, ord, changed) ==
  LET g      == TargetGet(m, t)
      fresh  == ~g.ok \/ g.val = Nil
      m0     == [m EXCEPT !.h = Append(@, MapCell(NoKeys))]
      m1     == IF fresh THEN TargetSet(m0, t, MapRef(Len(m0.h))) ELSE m
      dstVal == IF fresh THEN MapRef(Len(m0.h)) ELSE g.val
  IN  IF dstVal.t # "map" THEN [m |-> m1, changed |-> changed]
      ELSE mergeKeys(m1, dstVal.p, src, KeysInOrder(m1.h, src, ord), 1, changed)

RECURSIVE mergeEach(_, _, _, _, _, _)
mergeEach(m, targets, i, src, ord, changed) ==
  IF i > Len(targets) THEN [m |-> m, changed |-> changed]
  ELSE LET r == mergeTarget(m, targets[i], src, ord, changed)
       IN  mergeEach(r.m, targets, i + 1, src, ord, r.changed)

\* applyMerge that tests the value before it counts the targets
applyMerge_ChecksValueFirst(m, ord, path, value) ==
  LET ft == findTargets(m, ord, path)
  IN  IF value.t # "map" THEN Outcome(m, FALSE, "merge: value must be an object")
      ELSE IF Len(ft.out) = 0 THEN Outcome(m, FALSE, "nil")
      ELSE LET r == mergeEach(ft.m, ft.out, 1, value.p, ord, FALSE)
           IN  Outcome(r.m, r.changed, "nil")

applyMerge(m, ord, path, value) ==
  LET ft == findTargets(m, ord, path)
  IN  IF Len(ft.out) = 0 THEN Outcome(m, FALSE, "nil")
      ELSE IF value.t # "map" THEN Outcome(m, FALSE, "merge: value must be an object")
      ELSE LET r == mergeEach(ft.m, ft.out, 1, value.p, ord, FALSE)
           IN  Outcome(r.m, r.changed, "nil")

RECURSIVE deleteEach(_, _, _, _)
\* lines 189-193
deleteEach(m, targets, i, changed) ==
  IF i > Len(targets) THEN [m |-> m, changed |-> changed]
  ELSE LET r == TargetDel(m, targets[i])
       IN  deleteEach(r.m, targets, i + 1, changed \/ r.ok)

applyDelete(m, ord, path) ==
  LET ft == findTargets(m, ord, path)
  IN  IF Len(ft.out) = 0 THEN Outcome(m, FALSE, "nil")
      ELSE LET r == deleteEach(ft.m, ft.out, 1, FALSE)
           IN  Outcome(r.m, r.changed, "nil")

\* expandEach that expands the first template only
expandEach_FirstOnly(replacements, i, str, indices, out) ==
  Append(out, Str(ExpandString(replacements[1], str, indices)))

RECURSIVE expandEach(_, _, _, _, _)
\* lines 230-233
expandEach(replacements, i, str, indices, out) ==
  IF i > Len(replacements) THEN out
  ELSE expandEach(replacements, i + 1, str, indices,
                  Append(out, Str(ExpandString(replacements[i], str, indices))))

RECURSIVE transformItems(_, _, _, _, _, _)
\* lines 217-236: for _, item := range arr
transformItems(arr, i, re, replacements, out, targetChanged) ==
  IF i > Len(arr) THEN [out |-> out, targetChanged |-> targetChanged]
  ELSE LET item == arr[i]
       IN  IF item.t # "str"
             THEN transformItems(arr, i + 1, re, replacements, Append(out, item), targetChanged)
           ELSE LET f == FindStringSubmatchIndex(re, item.s)
                IN  IF ~f.ok
                      THEN transformItems(arr, i + 1, re, replacements,
                                          Append(out, item), targetChanged)
                      ELSE transformItems(arr, i + 1, re, replacements,
                                          expandEach(replacements, 1, item.s, f.idx, out), TRUE)

\* lines 206-239: one iteration of the loop over the targets
transformTarget(m, t, re, replacements, mutated) ==
  LET g == TargetGet(m, t)
  IN  IF ~g.ok \/ g.val.t # "slice" THEN [m |-> m, mutated |-> mutated]
      ELSE LET r == transformItems(SubSeq(m.h[g.val.a].e, 1, g.val.len), 1,
                                   re, replacements, <<>>, FALSE)
               m0 == [m EXCEPT !.h = Append(@, ArrCell(r.out))]
           IN  IF r.targetChanged
                 THEN [m |-> TargetSet(m0, t, Slice(Len(m0.h), Len(r.out))), mutated |-> TRUE]
                 ELSE [m |-> m, mutated |-> mutated]

RECURSIVE transformEach(_, _, _, _, _, _)
transformEach(m, targets, i, re, replacements, mutated) ==
  IF i > Len(targets) THEN [m |-> m, mutated |-> mutated]
  ELSE LET r == transformTarget(m, targets[i], re, replacements, mutated)
       IN  transformEach(r.m, targets, i + 1, re, replacements, r.mutated)

applyTransformArray(m, ord, path, re, replacements) ==
  LET ft == findTargets(m, ord, path)
  IN  IF Len(ft.out) = 0 THEN Outcome(m, FALSE, "nil")
      ELSE LET r == transformEach(ft.m, ft.out, 1, re, replacements, FALSE)
           IN  Outcome(r.m, r.mutated, "nil")

\* sourceMatches that looks at the first element of the array only
sourceMatches_FirstItemOnly(m, s, re) ==
  LET g == TargetGet(m, s)
  IN  /\ g.ok
      /\ g.val.t = "slice"
      /\ g.val.len > 0
      /\ LET item == m.h[g.val.a].e[1]
         IN  item.t = "str" /\ MatchString(re, item.s)

\* lines 250-267: the array of source s holds a string that matches
sourceMatches(m, s, re) ==
  LET g == TargetGet(m, s)
  IN  /\ g.ok
      /\ g.val.t = "slice"
      /\ \E i \in 1..g.val.len :
           LET item == m.h[g.val.a].e[i]
           IN  item.t = "str" /\ MatchString(re, item.s)

\* the scan of lines 249-271 reads only, so stopping at the first match
\* is the same as asking whether some source matches
applyMergeIfMatch(m, ord, sourcePath, targetPath, re, value) ==
  LET ft      == findTargets(m, ord, sourcePath)
      matched == \E i \in 1..Len(ft.out) : sourceMatches(ft.m, ft.out[i], re)
  IN  IF ~matched THEN Outcome(m, FALSE, "nil")
      ELSE applyMerge(m, ord, targetPath, value)

\* ------------------------------------------------------------------------
\* Inputs
\* ------------------------------------------------------------------------

MaxLen     == 2
MaxIndex   == 2
MaxActions == 3

ka == <<"a">>
kb == <<"b">>
k0 == <<"0">>
Keys == <<ka, kb, k0>>

Obj1(k, v)           == JObj(k :> v)
Obj2(k1, v1, k2, v2) == JObj((k1 :> v1) @@ (k2 :> v2))

sAB  == Str(<<"a", "b">>)
sCAB == Str(<<"c", "a", "b">>)

\* the orders in which a range over a map visits the keys: one order and
\* its reverse, so that every two keys are met in both orders
KeyOrders == {Keys, [n \in 1..Len(Keys) |-> Keys[Len(Keys) + 1 - n]]}

\* the JSON literals of the configured actions (Action.Value)
ValueDocs ==
  << Num(7),
     Obj1(kb, Num(7)),
     Obj1(ka, Obj1(kb, Nil)),
     JArr(<<Num(7)>>),
     JObj(NoKeys) >>

ArrElems == {sCAB, Num(1)}

\* the arrays of at most MaxLen elements
Arrs == UNION {[1..n -> ArrElems] : n \in 0..MaxLen}

\* the request bodies
Docs ==
  {JArr(es) : es \in Arrs}
  \cup {Obj1(ka, JArr(es)) : es \in Arrs}
  \cup {Obj1(ka, v) : v \in {Nil, Bool(TRUE), Num(1), sAB}}
  \cup { JArr(<<JArr(<<Num(1), sCAB>>), JArr(<<sAB>>)>>),
         Obj1(ka, JArr(<<JArr(<<sAB, sCAB>>)>>)),
         Obj1(k0, Num(1)),
         Obj1(ka, Obj1(k0, Num(1))),
         Obj1(k0, Obj1(ka, Num(1))),
         Obj1(ka, Obj1(kb, Num(7))),
         Obj1(ka, Obj1(ka, Obj1(ka, Nil))),
         Obj1(ka, Obj1(ka, Obj1(kb, Nil))),
         Obj2(ka, Num(1), kb, sAB),
         Obj1(ka, JArr(<<Obj1(kb, Num(7)), Nil, sAB>>)),
         JArr(<<Obj1(ka, Num(1)), Obj1(ka, JArr(<<sAB>>))>>) }

\* ------------------------------------------------------------------------
\* Actions
\* ------------------------------------------------------------------------

\* Action (lines 21-33).  value: 0 for an empty Value, -1 for bytes that are
\* not JSON, k > 0 for the literal ValueDocs[k]; when: "" for no expression,
\* else the value the expression has for the request.
Action(type, path, value, regex, replacements, target, when) ==
  [type |-> type, path |-> path, value |-> value, regex |-> regex,
   replacements |-> replacements, target |-> target, when |-> when]

NoRegex == Regex(FALSE, <<>>, FALSE)

\* Action.compile (lines 36-94): the error, "nil" when there is none.
\* Every pattern of the model is a valid one, so regexp.Compile succeeds.
compile(a) ==
  CASE a.type \in {"set", "merge"} ->
         IF a.value = 0 THEN "empty value"
         ELSE IF a.value < 0 THEN "invalid JSON value"
         ELSE "nil"
    [] a.type = "delete" -> "nil"
    [] a.type = "transform_array" ->
         IF a.regex = NoRegex THEN "regex required"
         ELSE IF Len(a.replacements) = 0 THEN "at least one replacement required"
         ELSE "nil"
    [] a.type = "merge_if_match" ->
         IF a.regex = NoRegex THEN "regex required"
         ELSE IF a.target = <<>> THEN "target path required"
         ELSE IF a.value <= 0 THEN "invalid JSON value"
         ELSE IF ValueDocs[a.value].t # "obj" THEN "value must be an object"
         ELSE "nil"
    [] OTHER -> "unsupported action type"

\* path tokens
tA == <<"a">>
tS == <<"*">>
t0 == <<"0">>
tN == <<CHOOSE c \in DigitChars : DigitVal(c) = MaxIndex>>

Dot(p, q) == p \o <<".">> \o q

Paths ==
  {tA, t0, tN, tS}
  \cup {Dot(tA, t0), Dot(tA, tN), Dot(tA, tS), Dot(tA, tA)}
  \cup {Dot(tS, t0), Dot(tS, tN), Dot(tS, tS), Dot(tS, tA)}
  \cup {Dot(t0, tN), Dot(t0, tS)}

reAB  == Regex(FALSE, <<"a", "b">>, FALSE)
reABr == Regex(TRUE, <<"a", "b">>, TRUE)

tWhole  == <<"$", "0">>
tMirror == <<"b", "/", "$", "1">>

SetAction(p, v)              == Action("set", p, v, NoRegex, <<>>, <<>>, "")
MergeAction(p, v)            == Action("merge", p, v, NoRegex, <<>>, <<>>, "")
DeleteAction(p, w)           == Action("delete", p, 0, NoRegex, <<>>, <<>>, w)
TransformAction(p, re, rs)   == Action("transform_array", p, 0, re, rs, <<>>, "")
MergeIfMatchAction(p, re, t, v) == Action("merge_if_match", p, v, re, <<>>, t, "")

\* the configured actions
RawActions ==
  {SetAction(p, v) : p \in Paths, v \in {0, 1, 2}}
  \cup {MergeAction(p, v) : p \in Paths, v \in {2, 3}}
  \cup {MergeAction(p, v) : p \in {tA, Dot(tA, t0), Dot(tA, tN)}, v \in {0 - 1, 1, 4, 5}}
  \cup {DeleteAction(p, "") : p \in Paths}
  \cup {DeleteAction(p, w) : p \in {tA, tS}, w \in {"true", "false"}}
  \cup {TransformAction(p, re, rs) :
          p \in {tA, tS, Dot(tA, t0), Dot(tA, tS), Dot(tA, tN)},
          re \in {reAB, reABr, NoRegex},
          rs \in {<<>>, <<tWhole>>, <<tWhole, tMirror>>}}
  \cup {MergeIfMatchAction(p, re, t, v) :
          p \in {tA, tS, Dot(tA, t0)},
          re \in {reAB, reABr},
          t \in {<<>>, Dot(tA, tN), tA, tN},
          v \in {1, 2}}

\* the configured actions that Provision accepts
Actions == {a \in RawActions : compile(a) = "nil"}

\* the actions of the longer lists
ListActions ==
  { SetAction(Dot(tA, tS), 2),
    SetAction(Dot(Dot(tA, t0), kb), 3),
    MergeAction(Dot(tA, tN), 5),
    MergeAction(tA, 1),
    DeleteAction(Dot(tA, t0), ""),
    DeleteAction(Dot(tA, tS), "false"),
    TransformAction(tA, reAB, <<tWhole, tMirror>>),
    MergeIfMatchAction(tA, reAB, Dot(tA, tN), 2) }

\* the request bodies the longer lists are run on
ListDocs ==
  { Obj1(ka, JArr(<<Num(1), sCAB>>)),
    Obj1(ka, JArr(<<sCAB>>)),
    Obj1(ka, JArr(<<>>)),
    Obj1(ka, Obj1(kb, Num(7))),
    Obj1(ka, JArr(<<Obj1(kb, Num(7)), Nil, sAB>>)) }

RECURSIVE ListsOf(_)
\* the lists of n actions of ListActions
ListsOf(n) ==
  IF n = 0 THEN {<<>>}
  ELSE {Append(l, a) : l \in ListsOf(n - 1), a \in ListActions}

\* a configuration and a request: any body with a list of one action, or
\* a body of ListDocs with a list of at most MaxActions actions
Requests ==
  {<<doc, <<a>> >> : doc \in Docs, a \in Actions}
  \cup {<<doc, l>> : doc \in ListDocs, l \in UNION {ListsOf(n) : n \in 0..MaxActions}}

VARIABLES h, root, compiled, actions, i, mutated, err, returned, pre, changed, flags,
          body

vars == <<h, root, compiled, actions, i, mutated, err, returned, pre, changed, flags,
          body>>

\* a.compiledValue
compiledValue(a) == compiled[a.value]

\* Provision has compiled the actions; ServeHTTP has decoded the body and
\* calls applyActions
Init ==
  \E rq \in Requests :
    LET doc  == rq[1]
        acts == rq[2]
        pool == AllocSeq(<<>>, ValueDocs, 1, <<>>)
        r    == Alloc(pool.h, doc)
    IN  /\ \A n \in 1..Len(acts) : compile(acts[n]) = "nil"
        /\ h = r.h
        /\ root = r.v
        /\ compiled = pool.vs
        /\ actions = acts
        /\ i = 0
        /\ mutated = FALSE
        /\ err = "nil"
        /\ returned = FALSE
        /\ pre = doc
        /\ changed = FALSE
        /\ flags = <<>>
        /\ body = doc

\* the action the loop of applyActions is at
Current == actions[i + 1]

\* the loop is at an action of this type, and its matcher lets it run
\* (lines 100-104)
AtAction(type) ==
  /\ ~returned
  /\ i < Len(actions)
  /\ Current.when # "false"
  /\ Current.type = type

\* Iterate that records the error of a failed action and goes on with the
\* next action
Iterate_GoesOnAfterError(o) ==
  /\ h' = o.m.h
  /\ root' = o.m.root
  /\ i' = i + 1
  /\ mutated' = (mutated \/ o.changed)
  /\ err' = o.err
  /\ returned' = FALSE
  /\ pre' = Deref(h, root)
  /\ changed' = o.changed
  /\ flags' = Append(flags, o.changed)
  /\ UNCHANGED <<compiled, actions, body>>

\* one iteration of the loop (lines 100-129) with outcome `o`
Iterate(o) ==
  LET failed == o.err # "nil" \/ o.m.panic
  IN  /\ h' = o.m.h
      /\ root' = o.m.root
      /\ i' = i + 1
      /\ mutated' = IF failed THEN mutated ELSE (mutated \/ o.changed)
      /\ err' = IF o.m.panic THEN "panic" ELSE o.err
      /\ returned' = failed
      /\ pre' = Deref(h, root)
      /\ changed' = o.changed
      /\ flags' = Append(flags, o.changed)
      /\ UNCHANGED <<compiled, actions, body>>

Set ==
  \E ord \in KeyOrders :
    /\ AtAction("set")
    /\ Iterate(applySet(Machine(h, root), ord, Current.path, compiledValue(Current)))

Merge ==
  \E ord \in KeyOrders :
    /\ AtAction("merge")
    /\ Iterate(applyMerge(Machine(h, root), ord, Current.path, compiledValue(Current)))

Delete ==
  \E ord \in KeyOrders :
    /\ AtAction("delete")
    /\ Iterate(applyDelete(Machine(h, root), ord, Current.path))

TransformArray ==
  \E ord \in KeyOrders :
    /\ AtAction("transform_array")
    /\ Iterate(applyTransformArray(Machine(h, root), ord, Current.path, Current.regex,
                                   Current.replacements))

MergeIfMatch ==
  \E ord \in KeyOrders :
    /\ AtAction("merge_if_match")
    /\ Iterate(applyMergeIfMatch(Machine(h, root), ord, Current.path, Current.target,
                                 Current.regex, compiledValue(Current)))

\* Skip that runs the action although its matcher is false
Skip_RunsTheAction ==
  \E ord \in KeyOrders :
    /\ ~returned
    /\ i < Len(actions)
    /\ Current.when = "false"
    /\ Iterate(applyDelete(Machine(h, root), ord, Current.path))

\* lines 101-103: the matcher is false, continue
Skip ==
  /\ ~returned
  /\ i < Len(actions)
  /\ Current.when = "false"
  /\ Iterate(Outcome(Machine(h, root), FALSE, "nil"))

\* line 131: the list is exhausted
Return ==
  /\ ~returned
  /\ i = Len(actions)
  /\ returned' = TRUE
  /\ UNCHANGED <<h, root, compiled, actions, i, mutated, err, pre, changed, flags, body>>

Next == Set \/ Merge \/ Delete \/ TransformArray \/ MergeIfMatch \/ Skip \/ Return

Spec == Init /\ [][Next]_vars
\* ------------------------------------------------------------------------
\* Properties
\* ------------------------------------------------------------------------

\* the document the root denotes now
Post == Deref(h, root)

\* the action the loop handled last
Last == actions[i]

\* the last iteration ran an action of this type
Ran(type) == i > 0 /\ Last.type = type /\ Last.when # "false"

\* the JSON literal of an action
ValueOf(a) == ValueDocs[a.value]

Front(loc) == SubSeq(loc, 1, Len(loc) - 1)
Final(loc) == loc[Len(loc)]

\* the existing locations a path addresses only when a numeric token met
\* at an Object is read as a key of that Object
NumericKeyLocs(doc, path) ==
  {loc \in LocsBy(doc, Split(path), TRUE) \ LocsBy(doc, Split(path), FALSE) :
     At(doc, loc).ok}

\* C1: a numeric token met at an Object is a literal key of it: Set, Delete
\* and Merge through such a path act on that key of the Object.
C1_NumericTokenIsKeyOfObject ==
  /\ Ran("set") =>
       \A loc \in NumericKeyLocs(pre, Last.path) :
         At(Post, loc) = [ok |-> TRUE, val |-> ValueOf(Last)]
  /\ Ran("delete") =>
       \A loc \in NumericKeyLocs(pre, Last.path) : ~At(Post, loc).ok
  /\ Ran("merge") /\ ValueOf(Last).t = "obj" =>
       \A loc \in NumericKeyLocs(pre, Last.path) :
         At(pre, loc).val.t \in {"obj", "null"} =>
           /\ At(Post, loc).val.t = "obj"
           /\ DOMAIN ValueOf(Last).m \subseteq DOMAIN At(Post, loc).val.m

\* the last segment of the path is the wildcard
EndsInStar(path) == Split(path)[Len(Split(path))] = Star

\* the container a location lies in is empty in the document
EmptiedAt(doc, loc) ==
  LET c == At(doc, Front(loc)).val
  IN  IF c.t = "arr" THEN Len(c.e) = 0 ELSE c.t = "obj" /\ DOMAIN c.m = {}

\* C2: Delete removes every resolved target: after a Delete whose path ends
\* in the wildcard, the Array (or Object) the wildcard ranged over is empty.
C2_DeleteRemovesEveryTarget ==
  Ran("delete") /\ EndsInStar(Last.path) =>
    \A loc \in Locs(pre, Last.path) : EmptiedAt(Post, loc)

\* C3: no list of actions that compiled makes applyActions return an error.
C3_CompiledActionsNeverFail == err = "nil"
\* the targets of the last action's path whose value before the action
\* existed and had one of the given types
TargetsOfType(types) ==
  {loc \in Locs(pre, Last.path) : At(pre, loc).ok /\ At(pre, loc).val.t \in types}

\* the targets of the last action's path that held nothing, or Null
MissingTargets ==
  {loc \in Locs(pre, Last.path) : ~At(pre, loc).ok \/ At(pre, loc).val = Nil}

\* a Merge of an Object ran last
RanMerge == Ran("merge") /\ ValueOf(Last).t = "obj"

\* the targets of the given types are as before, and give no change
Untouched(types) ==
  /\ err = "nil"
  /\ \A loc \in TargetsOfType(types) : At(Post, loc) = At(pre, loc)
  /\ Locs(pre, Last.path) = TargetsOfType(types) => ~changed

ObjectsAfter == {loc \in Locs(pre, Last.path) : At(Post, loc).ok /\ At(Post, loc).val.t = "obj"}

\* key k of the source is missing from, or differs in, the value at loc
Differs(doc, loc, k) ==
  LET d == At(doc, loc)
  IN  \/ ~d.ok
      \/ d.val.t # "obj"
      \/ k \notin DOMAIN d.val.m
      \/ d.val.m[k] # ValueOf(Last).m[k]

\* C5: after a Merge, every key of the source holds the source's value in
\* each destination Object, and changed is reported whenever a destination
\* lacked the key or held a value that is not structurally equal.
C5_MergeWritesEveryDifferingKey ==
  RanMerge =>
    \A loc \in ObjectsAfter : \A k \in DOMAIN ValueOf(Last).m :
      /\ ~Differs(Post, loc, k)
      /\ Differs(pre, loc, k) => changed

\* the targets of a path whose last step is an index at or beyond the end of
\* the Array it indexes
OutOfRange(doc, path) ==
  {loc \in Locs(doc, path) :
     /\ ~IsKeyStep(Final(loc))
     /\ At(doc, Front(loc)).val.t = "arr"
     /\ Final(loc).idx >= Len(At(doc, Front(loc)).val.e)}

\* the Array that location loc indexes has grown to reach loc: the elements
\* it had keep their places, the slots between are Null, and loc holds w
Grown(loc, w) ==
  LET old == At(pre, Front(loc)).val.e
      new == At(Post, Front(loc))
      n   == Final(loc).idx
  IN  /\ new.ok
      /\ new.val.t = "arr"
      /\ Len(new.val.e) = n + 1
      /\ \A k \in 1..Len(old) : new.val.e[k] = old[k]
      /\ \A k \in (Len(old) + 1)..n : new.val.e[k] = Nil
      /\ new.val.e[n + 1] = w

\* some Array the path resolves to in the document holds a string that the
\* regex matches
RefMatched(doc, path, re) ==
  \E loc \in Locs(doc, path) :
    LET g == At(doc, loc)
    IN  /\ g.ok
        /\ g.val.t = "arr"
        /\ \E k \in 1..Len(g.val.e) :
             g.val.e[k].t = "str" /\ MatchString(re, g.val.e[k].s)

\* a MergeIfMatch ran last and its source matched
RanMatched ==
  Ran("merge_if_match") /\ RefMatched(pre, Last.path, Last.regex)

\* the Arrays of the out-of-range targets are as before
NotGrown(path) ==
  /\ \A loc \in OutOfRange(pre, path) : At(Post, Front(loc)) = At(pre, Front(loc))
  /\ (Locs(pre, path) # {} /\ Locs(pre, path) = OutOfRange(pre, path)) =>
       Post = pre /\ ~changed

\* C6: a write (Set, or Merge / MergeIfMatch creating the destination)
\* through a target whose last segment is an index at or beyond the end of
\* the Array grows the Array reachable from the root to that index, keeping
\* the elements, filling the gap with Null and storing the written value;
\* Delete and the reads of TransformArray find such a target absent and
\* change nothing.
C6_OutOfRangeIndexGrowsArray ==
  /\ Ran("set") =>
       \A loc \in OutOfRange(pre, Last.path) : Grown(loc, ValueOf(Last))
  /\ RanMerge =>
       \A loc \in OutOfRange(pre, Last.path) : Grown(loc, ValueOf(Last))
  /\ RanMatched =>
       \A loc \in OutOfRange(pre, Last.target) : Grown(loc, ValueOf(Last))
  /\ Ran("delete") => NotGrown(Last.path)
  /\ Ran("transform_array") => NotGrown(Last.path)

\* a Set grew an Array below a wildcard, leaving a Null gap, and a sibling
\* Array grew by one slot only
C6_Witness ==
  /\ Ran("set")
  /\ \E loc \in OutOfRange(pre, Last.path) :
       /\ Len(loc) = 2
       /\ Len(At(pre, Front(loc)).val.e) = 1
       /\ Final(loc).idx = 2
       /\ At(Post, Front(loc) \o <<IdxStep(1)>>) = [ok |-> TRUE, val |-> Nil]
  /\ \E loc \in OutOfRange(pre, Last.path) :
       Len(At(pre, Front(loc)).val.e) = Final(loc).idx

\* a string element that the regex of the last action matches
Matches(item) ==
  item.t = "str" /\ FindStringSubmatchIndex(Last.regex, item.s).ok

\* the expansions of the templates for a matching string, in template order
Expansions(item) ==
  [n \in 1..Len(Last.replacements) |->
     Str(ExpandString(Last.replacements[n], item.s,
                      FindStringSubmatchIndex(Last.regex, item.s).idx))]

RECURSIVE Expected(_)
\* the elements in order, each matching string replaced by its expansions
Expected(es) ==
  IF Len(es) = 0 THEN <<>>
  ELSE (IF Matches(Head(es)) THEN Expansions(Head(es)) ELSE <<Head(es)>>)
       \o Expected(Tail(es))

\* the number of elements that match
Matching(es) == Cardinality({k \in 1..Len(es) : Matches(es[k])})

\* C7: TransformArray with N templates turns each Array target into the
\* concatenation, in order, of each element or, for a matching string, its N
\* expansions, so the length grows by (N-1) per match; other targets are
\* untouched, and changed tells whether some element of some target matched.
C7_TransformArrayFansOut ==
  Ran("transform_array") =>
    /\ \A loc \in TargetsOfType({"arr"}) :
         LET old == At(pre, loc).val.e
             new == At(Post, loc)
         IN  /\ new.ok
             /\ new.val.t = "arr"
             /\ new.val.e = Expected(old)
             /\ Len(new.val.e) = Len(old) + Matching(old) * (Len(Last.replacements) - 1)
    /\ \A loc \in TargetsOfType({"null", "bool", "num", "str", "obj"}) :
         At(Post, loc) = At(pre, loc)
    /\ changed = (\E loc \in TargetsOfType({"arr"}) : Matching(At(pre, loc).val.e) > 0)
    /\ err = "nil"

\* a TransformArray with two templates met an Array with a matching string
\* after a number, and an Array of one matching string that became two
C7_Witness ==
  /\ Ran("transform_array")
  /\ Len(Last.replacements) = 2
  /\ \E loc \in TargetsOfType({"arr"}) :
       LET old == At(pre, loc).val.e
       IN  Len(old) = 2 /\ old[1].t = "num" /\ Matches(old[2])
           /\ Len(At(Post, loc).val.e) = 3
  /\ \E loc \in TargetsOfType({"arr"}) :
       Len(At(pre, loc).val.e) = 1 /\ Len(At(Post, loc).val.e) = 2

\* C8: with the whole-match placeholder `$0` as the only template, every
\* matching string element is kept as it was, also when the regex matches
\* only a part of it.
C8_WholeMatchPlaceholderKeepsOriginal ==
  Ran("transform_array") /\ Last.replacements = <<tWhole>> =>
    \A loc \in TargetsOfType({"arr"}) : At(Post, loc) = At(pre, loc)

\* C9: a MergeIfMatch whose source holds no matching string changes nothing
\* and reports changed=false; one whose source matches leaves the tree and
\* the changed flag that Merge of the object at the target path gives on the
\* same tree.
C9_MergeIfMatchIsConditionalMerge ==
  Ran("merge_if_match") =>
    IF ~RefMatched(pre, Last.path, Last.regex)
      THEN Post = pre /\ ~changed /\ err = "nil"
      ELSE \A ord \in KeyOrders :
             LET pool == AllocSeq(<<>>, ValueDocs, 1, <<>>)
                 r    == Alloc(pool.h, pre)
                 o    == applyMerge(Machine(r.h, r.v), ord, Last.target,
                                    pool.vs[Last.value])
             IN  /\ Post = Deref(o.m.h, o.m.root)
                 /\ changed = o.changed
                 /\ err = o.err

\* a MergeIfMatch found no match in one Array of its source and a match in
\* another, and the merge changed the tree
C9_Witness ==
  /\ RanMatched
  /\ \E l1, l2 \in Locs(pre, Last.path) :
       /\ l1 # l2
       /\ At(pre, l1).val.t = "arr"
       /\ At(pre, l1).val.e # <<>>
       /\ \A k \in 1..Len(At(pre, l1).val.e) :
            ~(At(pre, l1).val.e[k].t = "str"
              /\ MatchString(Last.regex, At(pre, l1).val.e[k].s))
       /\ At(pre, l2).val.t = "arr"
  /\ changed
  /\ Post # pre

\* C10: when an action fails, applyActions has returned: no later action
\* runs, the tree is as the actions before the failing one left it, and the
\* returned flag is the OR of the changed flags of those actions.
C10_ErrorStopsExecution ==
  err # "nil" =>
    /\ returned
    /\ ~ENABLED Next
    /\ Post = pre
    /\ mutated = (\E n \in 1..(i - 1) : flags[n])

\* the second of three actions failed after the first had changed the tree
C10_Witness ==
  /\ err # "nil"
  /\ i = 2
  /\ Len(actions) = 3
  /\ mutated

\* one action applied to the tree rt of heap hp
ApplyOne(hp, rt, ord, a) ==
  LET m == Machine(hp, rt)
  IN  CASE a.type = "set"    -> applySet(m, ord, a.path, compiled[a.value])
        [] a.type = "merge"  -> applyMerge(m, ord, a.path, compiled[a.value])
        [] a.type = "delete" -> applyDelete(m, ord, a.path)
        [] a.type = "transform_array" ->
             applyTransformArray(m, ord, a.path, a.regex, a.replacements)
        [] a.type = "merge_if_match" ->
             applyMergeIfMatch(m, ord, a.path, a.target, a.regex, compiled[a.value])

RECURSIVE Sequentially(_, _, _, _, _)
\* the actions acts applied one after the other, from the k-th on, up to
\* the first that fails: the tree, the OR of the changed flags, the error
Sequentially(hp, rt, acts, k, flag) ==
  IF k > Len(acts) THEN [doc |-> Deref(hp, rt), changed |-> flag, err |-> "nil"]
  ELSE LET o == ApplyOne(hp, rt, Keys, acts[k])
       IN  IF o.err # "nil"
             THEN [doc |-> Deref(o.m.h, o.m.root), changed |-> flag, err |-> o.err]
             ELSE Sequentially(o.m.h, o.m.root, acts, k + 1, flag \/ o.changed)

\* the given actions applied in order to the request body
OnBody(acts) ==
  LET r == Alloc(AllocSeq(<<>>, ValueDocs, 1, <<>>).h, body)
  IN  Sequentially(r.h, r.v, acts, 1, FALSE)

\* the actions handled so far
Handled == SubSeq(actions, 1, i)

\* the actions handled so far whose predicate is absent or true
Enabled == SelectSeq(Handled, LAMBDA a : a.when # "false")

\* C11: the actions run in declared order and one whose predicate is false
\* is skipped as if absent: after each iteration the tree, the changed flag
\* and the error are those of applying in order, to the request body, the
\* handled actions whose predicate is absent or true.
C11_InOrderSkippingFalsePredicates ==
  /\ Post = OnBody(Enabled).doc
  /\ mutated = OnBody(Enabled).changed
  /\ err = OnBody(Enabled).err

\* three actions were handled, the second skipped between two that changed
\* the tree, and running the skipped one would have given another tree
C11_Witness ==
  /\ returned
  /\ err = "nil"
  /\ i = 3
  /\ actions[2].when = "false"
  /\ flags[1] /\ flags[3]
  /\ actions[1] # actions[3]
  /\ OnBody(Handled).doc # Post

\* the last action was a Set, Merge, Delete or TransformArray
RanAddressed ==
  i > 0 /\ Last.when # "false"
        /\ Last.type \in {"set", "merge", "delete", "transform_array"}

\* the tree that findTargets leaves when it resolves the path on document
\* doc, with the number of targets it returns
Resolved(doc, path, ord) ==
  LET r  == Alloc(<<>>, doc)
      ft == findTargets(Machine(r.h, r.v), ord, path)
  IN  [doc |-> Deref(ft.m.h, ft.m.root), n |-> Len(ft.out)]

\* C12: an action whose path resolves to no target is a silent no-op: Set,
\* Merge, Delete and TransformArray then report changed=false and no error
\* and leave the tree as it was; resolving a path never changes the tree.
C12_AddressingMissIsNoOp ==
  RanAddressed =>
    /\ Locs(pre, Last.path) = {} => Post = pre /\ ~changed /\ err = "nil"
    /\ \A ord \in KeyOrders :
         /\ Resolved(pre, Last.path, ord).doc = pre
         /\ Resolved(pre, Last.path, ord).n = Cardinality(Locs(pre, Last.path))

\* a Merge of a value that is not an Object found no target, on a body
\* where the first segment of its path is followed and the second is not
C12_Witness ==
  /\ Ran("merge")
  /\ ValueOf(Last).t # "obj"
  /\ Len(Split(Last.path)) = 2
  /\ Locs(pre, Last.path) = {}
  /\ Locs(pre, <<Head(Last.path)>>) # {}

RECURSIVE CellsOf(_, _), CellsOfAll(_, _, _)
\* the heap cells of the maps and slices met when walking value v, one entry
\* for each place a cell is met at
CellsOf(hp, v) ==
  CASE v.t = "slice" -> <<v.a>> \o CellsOfAll(hp, SubSeq(hp[v.a].e, 1, v.len), 1)
    [] v.t = "map" ->
         LET ks == KeysInOrder(hp, v.p, Keys)
         IN  <<v.p>> \o CellsOfAll(hp, [n \in 1..Len(ks) |-> hp[v.p].m[ks[n]]], 1)
    [] OTHER -> <<>>
CellsOfAll(hp, vs, k) ==
  IF k > Len(vs) THEN <<>> ELSE CellsOf(hp, vs[k]) \o CellsOfAll(hp, vs, k + 1)

\* no map or slice is met at two places of the tree and the compiled values
NoSharing ==
  LET cs == CellsOf(h, root) \o CellsOfAll(h, compiled, 1)
  IN  \A m, n \in 1..Len(cs) : m # n => cs[m] # cs[n]

\* the compiled values are the configured literals
CompiledIntact ==
  \A k \in 1..Len(ValueDocs) : Deref(h, compiled[k]) = ValueDocs[k]

RECURSIVE AllLocs(_)
\* every location of a document
AllLocs(doc) ==
  {<<>>} \cup
  CASE doc.t = "arr" ->
         UNION {Under(IdxStep(n - 1), AllLocs(doc.e[n])) : n \in 1..Len(doc.e)}
    [] doc.t = "obj" ->
         UNION {Under(KeyStep(k), AllLocs(doc.m[k])) : k \in DOMAIN doc.m}
    [] OTHER -> {}

IsPrefix(p, q) == Len(p) <= Len(q) /\ SubSeq(q, 1, Len(p)) = p

\* neither location lies on the way to the other
Apart(p, q) == ~IsPrefix(p, q) /\ ~IsPrefix(q, p)

WriteTypes == {"set", "merge", "merge_if_match"}

\* the actions handled so far that ran were Set, Merge or MergeIfMatch
OnlyWrites ==
  \A n \in 1..i : actions[n].when # "false" => actions[n].type \in WriteTypes

\* the locations the last write was addressed to
Written ==
  IF err # "nil" THEN {}
  ELSE IF Last.type \in {"set", "merge"} THEN Locs(pre, Last.path)
  ELSE IF RanMatched THEN Locs(pre, Last.target)
  ELSE {}

\* C13: after any sequence of Set, Merge and MergeIfMatch actions no map or
\* slice is shared between two places of the tree, nor between the tree and
\* a compiled value; the last write left every location that is apart from
\* its targets as it was; the compiled values are unchanged.
C13_NoAliasingAfterWrites ==
  /\ CompiledIntact
  /\ OnlyWrites =>
       /\ NoSharing
       /\ (i > 0 /\ Last.when # "false") =>
            \A l \in AllLocs(pre) :
              (\A t \in Written : Apart(l, t)) => At(Post, l) = At(pre, l)

\* a Set below one of the targets of the preceding wildcard Set changed that
\* target and left its equal sibling as it was
C13_Witness ==
  /\ OnlyWrites
  /\ Ran("set")
  /\ i >= 2
  /\ actions[i - 1].type = "set"
  /\ EndsInStar(actions[i - 1].path)
  /\ \E l1, l2 \in Locs(pre, actions[i - 1].path) :
       /\ l1 # l2
       /\ At(pre, l1).ok /\ At(pre, l1).val.t = "obj"
       /\ At(pre, l1) = At(pre, l2)
       /\ At(Post, l1) # At(pre, l1)
       /\ At(Post, l2) = At(pre, l2)

\* C14: the changed flag is sound for the decision to re-encode: when
\* applyActions returns changed=false and no error, the tree is the request
\* body as it was decoded.
C14_UnchangedFlagMeansSameTree ==
  (returned /\ err = "nil" /\ ~mutated) => Post = body
====
